---- MODULE Spec2Model ----
(***************************************************************************)
(* The MISB ST 1201 floating point <-> integer codec of fpencoder.go.      *)
(*                                                                         *)
(* A float64 is modelled exactly: a finite value is a dyadic rational      *)
(* m * 2^e (record Num(m, e), m odd or zero), and +Inf, -Inf and NaN are   *)
(* separate records.  The inputs are drawn from sets on which every        *)
(* float64 operation the code performs is exact (all intermediate values   *)
(* have far fewer than 53 significant bits); the one operation that is not *)
(* exact, log2 (math.Log(x)/math.Log(2)), is modelled together with the    *)
(* math.Ceil that always follows it, including the powers of two at which  *)
(* the float64 quotient lands above the exact integer.                     *)
(***************************************************************************)
EXTENDS Integers, Sequences, FiniteSets, TLC

VARIABLES ctor, fpe, err, pc, val, encoded, encErr, bytes, decoded, decErr

vars == <<ctor, fpe, err, pc, val, encoded, encErr, bytes, decoded, decErr>>

(***************************************************************************)
(* Bounds of the model.                                                    *)
(***************************************************************************)
MinMag == 2        \* min ranges over -MinMag .. MinMag
MaxSmall == 3      \* small max values 1 .. MaxSmall
MaxBigLen == 2     \* large max values 2^(8L-1), 2^(8L) (+0, +1) for L <= MaxBigLen
Near == 5          \* val is taken within Near of min, of max and of zero,
DenseExp == 6      \* and everywhere in a range no longer than 2^DenseExp
MidExp == 5        \* one more max value, 2^MidExp (+0, +1)
MaxLength == 9     \* lengths 0 .. MaxLength are offered to NewFPEncoderWithLength
MaxPrecExp == 66   \* precision = pm * 2^pe with -MaxPrecExp <= pe <= MaxCoarseExp
MaxCoarseExp == 12
MaxPrecMant == 2   \* pm ranges over the odd numbers 1, 3, .. 2*MaxPrecMant-1

(***************************************************************************)
(* float64 values.                                                         *)
(***************************************************************************)
RECURSIVE Norm(_, _)
Norm(m, e) ==
    IF m = 0 THEN [k |-> "num", m |-> 0, e |-> 0]
    ELSE IF m % 2 = 0 THEN Norm(m \div 2, e + 1)
    ELSE [k |-> "num", m |-> m, e |-> e]

Num(m, e) == Norm(m, e)
Int2F(n) == Norm(n, 0)
PosInf == [k |-> "+Inf", m |-> 0, e |-> 0]
NegInf == [k |-> "-Inf", m |-> 0, e |-> 0]
NaN == [k |-> "NaN", m |-> 0, e |-> 0]
NoFloat == [k |-> "none", m |-> 0, e |-> 0]
Zero == Int2F(0)

MinOf(x, y) == IF x <= y THEN x ELSE y

\* floor(m / 2^k) and ceil(m / 2^k) for k >= 0, without forming 2^k when it
\* exceeds every mantissa of the model
FloorDiv(m, k) == IF k > 30 THEN (IF m < 0 THEN -1 ELSE 0) ELSE m \div (2^k)
CeilDiv(m, k) == -FloorDiv(-m, k)

Neg(x) == [k |-> "num", m |-> -x.m, e |-> x.e]
Add(x, y) ==
    IF x.m = 0 THEN y
    ELSE IF y.m = 0 THEN x
    ELSE LET e == MinOf(x.e, y.e)
         IN  Norm(x.m * 2^(x.e - e) + y.m * 2^(y.e - e), e)
Sub(x, y) == Add(x, Neg(y))
Mul(x, y) == Norm(x.m * y.m, x.e + y.e)
Floor(x) == IF x.e >= 0 THEN x ELSE Norm(FloorDiv(x.m, -x.e), 0)
Leq(x, y) ==
    LET k == y.e - x.e
    IN  IF k >= 0 THEN CeilDiv(x.m, k) <= y.m
        ELSE x.m <= FloorDiv(y.m, -k)
Less(x, y) == ~Leq(y, x)
IsInteger(x) == x.e >= 0

(***************************************************************************)
(* log2 and the ceilings taken of it.                                      *)
(*                                                                         *)
(* log2(x) = math.Log(x) / math.Log(2) is exact to within a few ulp.  Away *)
(* from a power of two that error never changes math.Ceil of the result    *)
(* (the inputs of the model are ratios of small integers).  At x = 2^k the *)
(* float64 quotient is k for most k and one ulp above k for the k listed   *)
(* in Log2Above; after the "+ 1" of NewFPEncoderWithPrecision the sum is   *)
(* still above k + 1 for the k in Log2Plus1Above (at k = 31 the addition   *)
(* rounds the excess away).                                                *)
(***************************************************************************)
Log2Above == {29, 31, 39, 47, 51, 55, 58, 59, 62, 78, 93, 94, 95}
Log2Plus1Above == Log2Above \ {31}

\* smallest j >= from with mp * 2^j >= mr
RECURSIVE ExpUp(_, _, _)
ExpUp(mr, mp, j) == IF mp * 2^j >= mr THEN j ELSE ExpUp(mr, mp, j + 1)
\* largest i >= from with mp >= mr * 2^i
RECURSIVE ExpDown(_, _, _)
ExpDown(mr, mp, i) == IF mp >= mr * 2^(i + 1) THEN ExpDown(mr, mp, i + 1) ELSE i

\* the smallest integer k with 2^k >= r / p, for r, p > 0
CeilLog2Exact(r, p) ==
    (r.e - p.e) + (IF p.m >= r.m THEN -ExpDown(r.m, p.m, 0) ELSE ExpUp(r.m, p.m, 1))

\* math.Ceil(log2(x)), x > 0 (line 156)
CeilLog2(x) ==
    IF x.m = 1 /\ x.e \in Log2Above THEN x.e + 1 ELSE CeilLog2Exact(x, Int2F(1))

\* math.Ceil(log2(r / p) + 1), r, p > 0 (line 52)
CeilLog2Plus1(r, p) ==
    IF r.m = p.m /\ (r.e - p.e) \in Log2Plus1Above THEN (r.e - p.e) + 2
    ELSE CeilLog2Exact(r, p) + 1

(***************************************************************************)
(* The codec.                                                              *)
(***************************************************************************)
\* new(FPEncoder): every field zero
ZeroFPE ==
    [a |-> Zero, b |-> Zero, bPow |-> 0, dPow |-> 0, sF |-> Zero, sR |-> Zero,
     zOffset |-> Zero, fieldLength |-> 0]

\* variants of the definitions below, each with one slip of the kind the
\* properties are meant to exclude; no specification uses them
bPowOfFloor(min, max) ==
    LET x == Sub(max, min) IN CeilLog2Exact(x, Int2F(1)) - (IF x.m = 1 THEN 0 ELSE 1)
bPowOf(min, max) == CeilLog2(Sub(max, min))
dPowOfNoReservedBit(length) == 8 * length
dPowOf(length) == 8 * length - 1
sFOf(min, max, length) == Num(1, dPowOf(length) - bPowOf(min, max))
sROf(min, max, length) == Num(1, bPowOf(min, max) - dPowOf(length))
zOffsetOfAnyRange(min, max, length) ==
    LET sFa == Mul(sFOf(min, max, length), min) IN Sub(sFa, Floor(sFa))
zOffsetOf(min, max, length) ==
    IF Less(min, Zero) /\ Less(Zero, max)
    THEN LET sFa == Mul(sFOf(min, max, length), min) IN Sub(sFa, Floor(sFa))
    ELSE Zero

preCompute(min, max, length) ==
    [a |-> min, b |-> max,
     bPow |-> bPowOf(min, max),
     dPow |-> dPowOf(length),
     sF |-> sFOf(min, max, length),
     sR |-> sROf(min, max, length),
     zOffset |-> zOffsetOf(min, max, length),
     fieldLength |-> length]

ValidLengths == {1, 2, 4, 8}

NoCtor == [op |-> "none", min |-> Zero, max |-> Zero, length |-> 0, precision |-> Zero]

\* the caller's variables that hold the operands and results of Encode and Decode
NoCalls ==
    /\ val' = NoFloat /\ encoded' = <<>> /\ encErr' = "none"
    /\ bytes' = <<>> /\ decoded' = NoFloat /\ decErr' = "none"

NewFPEncoderWithLength(min, max, length) ==
    /\ pc = "init"
    /\ ctor' = [op |-> "NewFPEncoderWithLength", min |-> min, max |-> max,
                length |-> length, precision |-> Zero]
    /\ IF length \in ValidLengths
       THEN fpe' = preCompute(min, max, length) /\ err' = "nil"
       ELSE fpe' = ZeroFPE /\ err' = "InvalidFieldLength"
    /\ pc' = "constructed"
    /\ NoCalls

\* lines 52 and 54
bitsOf(min, max, precision) == CeilLog2Plus1(Sub(max, min), precision)
bytesNeeded(min, max, precision) == -((-bitsOf(min, max, precision)) \div 8)

NewFPEncoderWithPrecision(min, max, precision) ==
    /\ pc = "init"
    /\ ctor' = [op |-> "NewFPEncoderWithPrecision", min |-> min, max |-> max,
                length |-> 0, precision |-> precision]
    /\ LET length == bytesNeeded(min, max, precision)
       IN  IF length <= 2
           THEN fpe' = preCompute(min, max, length) /\ err' = "nil"
           ELSE IF length <= 4
           THEN fpe' = preCompute(min, max, 4) /\ err' = "nil"
           ELSE IF length <= 8
           THEN fpe' = preCompute(min, max, 8) /\ err' = "nil"
           ELSE fpe' = ZeroFPE /\ err' = "PrecisionUnrepresentable"
    /\ pc' = "constructed"
    /\ NoCalls

(***************************************************************************)
(* Encode.                                                                 *)
(***************************************************************************)
PosInfByte == 200    \* 0xc8
NegInfByte == 232    \* 0xe8
NaNByte == 208       \* 0xd0
SentinelBytes == {PosInfByte, NegInfByte, NaNByte}

\* make([]byte, n) with encoded[0] = first
Flagged(n, first) == [i \in 1..n |-> IF i = 1 THEN first ELSE 0]

\* d = math.Floor(fpe.sF*(val-fpe.a) + fpe.zOffset)
FloorD(f, v) == Floor(Add(Mul(f.sF, Sub(v, f.a)), f.zOffset))

\* byte i (1 = most significant) of the integer d >= 0 converted to an
\* unsigned integer of n bytes and written big-endian: floor(d / 2^s) mod 256
\* with s = 8*(n-i); the bits of d above 2^(8n) are dropped by the conversion
ByteAt(d, n, i) ==
    LET s == 8 * (n - i)
    IN  IF d.e - s >= 8 THEN 0
        ELSE IF d.e - s >= 0 THEN ((d.m % 256) * 2^(d.e - s)) % 256
        ELSE FloorDiv(d.m, s - d.e) % 256

LittleEndian(d, n) == [i \in 1..n |-> ByteAt(d, n, n + 1 - i)]
BigEndian(d, n) == [i \in 1..n |-> ByteAt(d, n, i)]

\* the bytes written for a value in range (the switch of lines 87-100); no
\* case matches another field length and the buffer stays empty
EncodeOrdinary(f, v) ==
    IF f.fieldLength \in ValidLengths
    THEN BigEndian(FloorD(f, v), f.fieldLength)
    ELSE <<>>

EncodeResultExclusive(f, v) ==
    IF f.fieldLength < 0 THEN <<(<<>>), "panic">>
    ELSE IF v.k \in {"+Inf", "-Inf", "NaN"}
         THEN IF f.fieldLength = 0 THEN <<(<<>>), "panic">>
              ELSE IF v.k = "+Inf" THEN <<Flagged(f.fieldLength, PosInfByte), "nil">>
              ELSE IF v.k = "-Inf" THEN <<Flagged(f.fieldLength, NegInfByte), "nil">>
              ELSE <<Flagged(f.fieldLength, NaNByte), "nil">>
    ELSE IF Leq(v, f.a) \/ Leq(f.b, v) THEN <<(<<>>), "OutOfRange">>
    ELSE <<EncodeOrdinary(f, v), "nil">>

\* <<encoded, err>> of fpe.Encode(v)
EncodeResult(f, v) ==
    IF f.fieldLength < 0 THEN <<(<<>>), "panic">>          \* make: len out of range
    ELSE IF v.k \in {"+Inf", "-Inf", "NaN"}
         THEN IF f.fieldLength = 0 THEN <<(<<>>), "panic">> \* encoded[0]: index out of range
              ELSE IF v.k = "+Inf" THEN <<Flagged(f.fieldLength, PosInfByte), "nil">>
              ELSE IF v.k = "-Inf" THEN <<Flagged(f.fieldLength, NegInfByte), "nil">>
              ELSE <<Flagged(f.fieldLength, NaNByte), "nil">>
    ELSE IF Less(v, f.a) \/ Less(f.b, v) THEN <<(<<>>), "OutOfRange">>
    ELSE <<EncodeOrdinary(f, v), "nil">>

Encode(v) ==
    /\ pc = "constructed"
    /\ err = "nil"
    /\ val' = v
    /\ encoded' = EncodeResult(fpe, v)[1]
    /\ encErr' = EncodeResult(fpe, v)[2]
    /\ bytes' = <<>> /\ decoded' = NoFloat /\ decErr' = "none"
    /\ pc' = "Encode"
    /\ UNCHANGED <<ctor, fpe, err>>

(***************************************************************************)
(* Decode.                                                                 *)
(***************************************************************************)
\* the big-endian unsigned integer held by bs, as a float64
RECURSIVE Uint(_)
Uint(bs) ==
    IF bs = <<>> THEN Zero
    ELSE LET n == Len(bs)
             hi == Uint(SubSeq(bs, 1, n - 1))
         IN  Add(Mul(hi, Num(1, 8)), Int2F(bs[n]))

ReconstructNoOffset(f, l) == Add(Mul(f.sR, l), f.a)

\* val = fpe.sR*(l-fpe.zOffset) + fpe.a
Reconstruct(f, l) == Add(Mul(f.sR, Sub(l, f.zOffset)), f.a)

\* l of lines 121-135: zero when no case of the switch matches
DecodeL(f, bs) == IF f.fieldLength \in ValidLengths THEN Uint(bs) ELSE Zero

DecodeOrdinary(f, bs) ==
    LET v == Reconstruct(f, DecodeL(f, bs))
    IN  IF Less(v, f.a) \/ Less(f.b, v)
        THEN <<Zero, "DecodedOutOfRange">>
        ELSE <<v, "nil">>

DecodeResultZeroTail(f, bs) ==
    IF Len(bs) # f.fieldLength THEN <<Zero, "LengthMismatch">>
    ELSE IF Len(bs) = 0 THEN <<Zero, "panic">>
    ELSE IF bs = Flagged(Len(bs), PosInfByte) THEN <<PosInf, "nil">>
    ELSE IF bs = Flagged(Len(bs), NegInfByte) THEN <<NegInf, "nil">>
    ELSE IF bs = Flagged(Len(bs), NaNByte) THEN <<NaN, "nil">>
    ELSE LET v == Add(Mul(f.sR, Sub(IF f.fieldLength \in ValidLengths THEN Uint(bs) ELSE Zero,
                                    f.zOffset)), f.a)
         IN  IF Less(v, f.a) \/ Less(f.b, v) THEN <<Zero, "DecodedOutOfRange">>
             ELSE <<v, "nil">>

\* <<val, err>> of fpe.Decode(bs)
DecodeResult(f, bs) ==
    IF Len(bs) # f.fieldLength THEN <<Zero, "LengthMismatch">>
    ELSE IF Len(bs) = 0 THEN <<Zero, "panic">>              \* bytes[0]: index out of range
    ELSE IF bs[1] = PosInfByte THEN <<PosInf, "nil">>
    ELSE IF bs[1] = NegInfByte THEN <<NegInf, "nil">>
    ELSE IF bs[1] = NaNByte THEN <<NaN, "nil">>
    ELSE DecodeOrdinary(f, bs)

\* Decode of bytes the caller supplies
Decode(bs) ==
    /\ pc = "constructed"
    /\ err = "nil"
    /\ bytes' = bs
    /\ decoded' = DecodeResult(fpe, bs)[1]
    /\ decErr' = DecodeResult(fpe, bs)[2]
    /\ val' = NoFloat /\ encoded' = <<>> /\ encErr' = "none"
    /\ pc' = "Decode"
    /\ UNCHANGED <<ctor, fpe, err>>

\* Decode of what Encode has just returned (src/unnamed/part_000, testWithError)
DecodeEncoded ==
    /\ pc = "Encode"
    /\ encErr = "nil"
    /\ bytes' = encoded
    /\ decoded' = DecodeResult(fpe, encoded)[1]
    /\ decErr' = DecodeResult(fpe, encoded)[2]
    /\ pc' = "RoundTrip"
    /\ UNCHANGED <<ctor, fpe, err, val, encoded, encErr>>

(***************************************************************************)
(* Inputs.                                                                 *)
(***************************************************************************)
Mins == {Int2F(n) : n \in -MinMag..MinMag}
BigMaxs ==
    {2^(8 * L - 1 + i) + j : L \in 1..MaxBigLen, i \in 0..1, j \in 0..1}
        \cup {2^MidExp + j : j \in 0..1}
Maxs == {Int2F(n) : n \in (1..MaxSmall) \cup BigMaxs}
Ranges == {r \in Mins \X Maxs : Less(r[1], r[2])}
Lengths == 0..MaxLength

\* every precision pm * 2^pe of the bounds, and the few offered to a full run
AllPrecisions ==
    {Num(2 * i - 1, pe) : i \in 1..MaxPrecMant, pe \in -MaxPrecExp..MaxCoarseExp}
Precisions ==
    {Num(1, pe) : pe \in {-MaxPrecExp, -(MaxPrecExp \div 3), -(MaxPrecExp \div 6), 0, 1,
                          MaxCoarseExp}}

\* the values offered to Encode: finite values around min, max and zero (all
\* of a short range), one step outside the range on either side, and the
\* three special values
IntOf(x) == x.m * 2^x.e
FiniteVals(f) ==
    LET lo == IntOf(f.a)
        hi == IntOf(f.b)
    IN  IF hi - lo <= 2^DenseExp
        THEN {Int2F(n) : n \in (lo - 1)..(hi + 1)}
        ELSE {Int2F(n) : n \in ((lo - 1)..(lo + Near)) \cup ((hi - Near)..(hi + 1))
                                  \cup ((-Near)..Near)}
Vals(f) == {v \in FiniteVals(f) : Leq(Sub(f.a, Int2F(1)), v)} \cup {PosInf, NegInf, NaN}

\* the byte sequences offered to Decode: of the field length, and one shorter
\* and one longer.  Bytes after the second are nonzero only behind a sentinel
\* first byte, where Decode does not read them, so that the unsigned integer
\* of an ordinary sequence converts to float64 exactly.
FirstBytes == {0, 1, 127, 128, 255} \cup SentinelBytes
OtherBytes == {0, 255}
MkBytes(n, first, second, rest) ==
    [i \in 1..n |-> IF i = 1 THEN first ELSE IF i = 2 THEN second ELSE rest]
DecodeInputs(f) ==
    {MkBytes(f.fieldLength, b1, b2, 0) : b1 \in FirstBytes, b2 \in OtherBytes}
    \cup {MkBytes(f.fieldLength, b1, b2, 255) : b1 \in SentinelBytes, b2 \in OtherBytes}
    \cup {MkBytes(n, b1, 0, 0) :
            n \in {l \in {f.fieldLength - 1, f.fieldLength + 1} : l >= 0},
            b1 \in FirstBytes}

(***************************************************************************)
(* Specifications.                                                         *)
(***************************************************************************)
Init ==
    /\ ctor = NoCtor
    /\ fpe = ZeroFPE
    /\ err = "none"
    /\ pc = "init"
    /\ val = NoFloat /\ encoded = <<>> /\ encErr = "none"
    /\ bytes = <<>> /\ decoded = NoFloat /\ decErr = "none"

Next ==
    \/ pc = "init" /\ \E r \in Ranges, length \in Lengths :
                         NewFPEncoderWithLength(r[1], r[2], length)
    \/ pc = "init" /\ \E r \in Ranges, p \in Precisions :
                         NewFPEncoderWithPrecision(r[1], r[2], p)
    \/ pc = "constructed" /\ \E v \in Vals(fpe) : Encode(v)
    \/ pc = "constructed" /\ \E bs \in DecodeInputs(fpe) : Decode(bs)
    \/ DecodeEncoded

Spec == Init /\ [][Next]_vars

\* the constructors alone, over every precision of the bounds
NextCtor ==
    \/ pc = "init" /\ \E r \in Ranges, length \in Lengths :
                         NewFPEncoderWithLength(r[1], r[2], length)
    \/ pc = "init" /\ \E r \in Ranges, p \in AllPrecisions :
                         NewFPEncoderWithPrecision(r[1], r[2], p)

SpecCtor == Init /\ [][NextCtor]_vars

(***************************************************************************)
(* Properties.                                                             *)
(***************************************************************************)
ValidCodec == err = "nil" /\ fpe.fieldLength \in ValidLengths /\ Less(fpe.a, fpe.b)
Finite(v) == v.k = "num"
InRange(v) == Finite(v) /\ Leq(fpe.a, v) /\ Leq(v, fpe.b)
Straddles == Less(fpe.a, Zero) /\ Less(Zero, fpe.b)
Abs(x) == IF x.m < 0 THEN Neg(x) ELSE x
\* s <= t for two byte sequences of one length read as big-endian unsigned integers
BytesLeq(s, t) ==
    \/ s = t
    \/ \E i \in 1..Len(s) : s[i] < t[i] /\ \A j \in 1..(i - 1) : s[j] = t[j]
RangeVals == {v \in Vals(fpe) : InRange(v)}

\* C1: Decode accepts every output of Encode: after a round trip of a value in
\* [min, max] through a codec of NewFPEncoderWithLength, Decode reports no error.
C1_RoundTripSucceeds ==
    (pc = "RoundTrip" /\ ctor.op = "NewFPEncoderWithLength" /\ ValidCodec /\ InRange(val))
        => decErr = "nil"

C3_Monotonic ==
    (pc = "Encode" /\ ValidCodec /\ InRange(val))
        => \A x \in RangeVals :
              /\ Less(x, val) => BytesLeq(EncodeResult(fpe, x)[1], encoded)
              /\ Less(val, x) => BytesLeq(encoded, EncodeResult(fpe, x)[1])

C3_Witness ==
    /\ pc = "Encode" /\ ValidCodec /\ val = fpe.b
    /\ encoded = Flagged(fpe.fieldLength, 128)
    /\ \E x \in RangeVals : Less(x, val) /\ EncodeResult(fpe, x)[1] # encoded

\* the smallest member of {1, 2, 4, 8} that is >= n (1 <= n <= 8 is not assumed)
SmallestWidth(n) ==
    IF n <= 1 THEN 1 ELSE IF n <= 2 THEN 2 ELSE IF n <= 4 THEN 4 ELSE 8

\* C4: NewFPEncoderWithPrecision fails exactly when bytesNeeded > 8, and a codec
\* it returns has the smallest field length of {1, 2, 4, 8} that is >= bytesNeeded.
C4_SmallestFieldLength ==
    (pc = "constructed" /\ ctor.op = "NewFPEncoderWithPrecision")
        => LET n == bytesNeeded(ctor.min, ctor.max, ctor.precision)
           IN  /\ (err # "nil") <=> (n > 8)
               /\ err = "nil" =>
                    /\ fpe.fieldLength = SmallestWidth(n)
                    /\ fpe.fieldLength \in ValidLengths

\* C5: for every codec a constructor returned, Encode of +Inf, -Inf and NaN
\* succeeds and returns fieldLength bytes, the sentinel first and zeros after it.
C5_SentinelsEncode ==
    (pc = "Encode" /\ err = "nil" /\ ~Finite(val))
        => /\ encErr = "nil"
           /\ Len(encoded) = fpe.fieldLength
           /\ encoded[1] = (IF val.k = "+Inf" THEN PosInfByte
                            ELSE IF val.k = "-Inf" THEN NegInfByte ELSE NaNByte)
           /\ \A i \in 2..Len(encoded) : encoded[i] = 0

\* C6: Decode of fieldLength bytes whose first is 0xC8, 0xE8 or 0xD0 returns
\* +Inf, -Inf or NaN with no error whatever the other bytes are, and Decode of
\* a sequence of another length fails with the length-mismatch error.
C6_SentinelsDecode ==
    (pc = "Decode" /\ err = "nil")
        => /\ (Len(bytes) = fpe.fieldLength /\ Len(bytes) >= 1 /\ bytes[1] \in SentinelBytes)
                => /\ decErr = "nil"
                   /\ decoded = (IF bytes[1] = PosInfByte THEN PosInf
                                 ELSE IF bytes[1] = NegInfByte THEN NegInf ELSE NaN)
           /\ Len(bytes) # fpe.fieldLength
                => decErr = "LengthMismatch" /\ decoded.k \notin {"+Inf", "-Inf", "NaN"}

C6_Witness ==
    /\ pc = "Decode" /\ err = "nil" /\ fpe.fieldLength = 8 /\ Len(bytes) = 8
    /\ bytes[1] = NegInfByte /\ bytes[2] = 255 /\ bytes[8] = 255
    /\ decoded = NegInf /\ decErr = "nil"

\* C7: for a valid codec and a finite val, Encode fails with the out-of-range
\* error, returning no bytes, exactly when val < min or val > max, and
\* otherwise returns exactly fieldLength bytes.
C7_OutOfRange ==
    (pc = "Encode" /\ ValidCodec /\ Finite(val))
        => /\ (encErr = "OutOfRange") <=> (Less(val, fpe.a) \/ Less(fpe.b, val))
           /\ encErr = "OutOfRange" => encoded = <<>>
           /\ encErr # "OutOfRange" => encErr = "nil" /\ Len(encoded) = fpe.fieldLength

C7_Witness ==
    /\ pc = "Encode" /\ ValidCodec /\ val = Add(fpe.b, Int2F(1))
    /\ encErr = "OutOfRange" /\ encoded = <<>>

\* C8: the first byte Encode returns for a finite value of [min, max] is none
\* of the sentinel bytes, and Decode of it returns none of +Inf, -Inf, NaN.
C8_NoSentinelCollision ==
    (pc \in {"Encode", "RoundTrip"} /\ ValidCodec /\ InRange(val))
        => /\ encoded[1] \notin SentinelBytes
           /\ pc = "RoundTrip" => decoded.k \notin {"+Inf", "-Inf", "NaN"}

C8_Witness ==
    /\ pc = "RoundTrip" /\ ValidCodec /\ InRange(val)
    /\ encoded[1] = 128 /\ decErr = "nil" /\ decoded = val

C10_ZeroExact ==
    /\ (pc # "init" /\ ValidCodec /\ ~Straddles) => fpe.zOffset = Zero
    /\ (pc = "RoundTrip" /\ ValidCodec /\ Straddles /\ val = Zero)
          => /\ IsInteger(Add(Mul(fpe.sF, Sub(Zero, fpe.a)), fpe.zOffset))
             /\ decErr = "nil"
             /\ decoded = Zero

C10_Witness ==
    /\ pc = "RoundTrip" /\ ValidCodec /\ Straddles /\ val = Zero
    /\ fpe.zOffset # Zero
    /\ decoded = Zero

====
